---- MODULE Spec2Model ----
(***************************************************************************)
(* A model of src/story_processor.py: one StoryProcessor instance (index,  *)
(* texts, metadatas), the two persisted artifacts (story_index.faiss and   *)
(* story_store.pkl) and the operations process_stories,                    *)
(* find_relevant_chunks and get_character_info.  Strings are sequences of  *)
(* one-character strings, so that lower(), `in`, split('.'), strip(),      *)
(* replace() and " ".join() are computed character by character.           *)
(***************************************************************************)
EXTENDS Integers, Sequences, FiniteSets, TLC

\* the most chunks self.texts may hold before process_stories is no longer called
MaxChunks == 3

\* the default k of find_relevant_chunks
DefaultK == 5

\* the length summary is cut to
SummaryLen == 500

\* the number of relations kept
MaxRelations == 3

\* source paths given on the command line (metadata["source"], line 152)
HeroPath ==
    <<"h", "e", "r", "o", ".", "t", "x", "t">>

VillainPath ==
    <<"v", "i", "l", "l", "a", "i", "n", ".", "t", "x", "t">>

\* the raw text of each story file (f.read(), lines 102 and 151)
HeroText ==
    <<"A", "l", " ", "w", "o", "n", ".">>

VillainText ==
    <<"B", "o", " ", "l", "o", "s", "t", ".">>

\* character names passed to get_character_info
NameAl ==
    <<"A", "l">>

NameBo ==
    <<"B", "o">>

NameLowerBo ==
    <<"b", "o">>

NameZed ==
    <<"Z", "e", "d">>

\* the literals of the four query templates (lines 88-91)
TitlePrefix ==
    <<"s", "t", "o", "r", "y", " ", "t", "i", "t", "l", "e", " ">>

SummaryPrefix ==
    <<"s", "u", "m", "m", "a", "r", "y", " ", "o", "f", " ">>

SummarySuffix ==
    <<"'", "s", " ", "r", "o", "l", "e">>

RelationsPrefix ==
    <<"r", "e", "l", "a", "t", "i", "o", "n", "s", "h", "i", "p", "s", " ",
      "o", "f", " ">>

TypePrefix ==
    <<"c", "h", "a", "r", "a", "c", "t", "e", "r", " ", "t", "y", "p", "e",
      " ", "r", "o", "l", "e", " ", "o", "f", " ">>

\* the literal replaced in the title (line 108)
TxtExt ==
    <<".", "t", "x", "t">>

\* the keywords of the classification (lines 122-126)
KwProtagonist ==
    <<"p", "r", "o", "t", "a", "g", "o", "n", "i", "s", "t">>

KwAntagonist ==
    <<"a", "n", "t", "a", "g", "o", "n", "i", "s", "t">>

KwMain ==
    <<"m", "a", "i", "n">>

\* the name given to every relation (line 117)
Unknown ==
    <<"U", "n", "k", "n", "o", "w", "n">>

\* the four values of characterType (lines 120-127)
Protagonist ==
    <<"P", "r", "o", "t", "a", "g", "o", "n", "i", "s", "t">>

Antagonist ==
    <<"A", "n", "t", "a", "g", "o", "n", "i", "s", "t">>

MainCharacter ==
    <<"M", "a", "i", "n", " ", "C", "h", "a", "r", "a", "c", "t", "e", "r">>

SupportingCharacter ==
    <<"S", "u", "p", "p", "o", "r", "t", "i", "n", "g", " ", "C", "h", "a",
      "r", "a", "c", "t", "e", "r">>

(***************************************************************************)
(* Python's string operations                                              *)
(***************************************************************************)
\* str.lower() on one character
LowerChar(c) ==
    CASE c = "A" -> "a"
      [] c = "B" -> "b"
      [] c = "C" -> "c"
      [] c = "D" -> "d"
      [] c = "E" -> "e"
      [] c = "F" -> "f"
      [] c = "G" -> "g"
      [] c = "H" -> "h"
      [] c = "I" -> "i"
      [] c = "J" -> "j"
      [] c = "K" -> "k"
      [] c = "L" -> "l"
      [] c = "M" -> "m"
      [] c = "N" -> "n"
      [] c = "O" -> "o"
      [] c = "P" -> "p"
      [] c = "Q" -> "q"
      [] c = "R" -> "r"
      [] c = "S" -> "s"
      [] c = "T" -> "t"
      [] c = "U" -> "u"
      [] c = "V" -> "v"
      [] c = "W" -> "w"
      [] c = "X" -> "x"
      [] c = "Y" -> "y"
      [] c = "Z" -> "z"
      [] OTHER -> c

\* str.lower()
Lower(s) ==
    SubSeq([i \in 1..Len(s) |-> LowerChar(s[i])], 1, Len(s))

\* sub in s
Contains(sub, s) ==
    \E i \in 0..(Len(s) - Len(sub)) :
        \A j \in 1..Len(sub) : s[i + j] = sub[j]

Whitespace ==
    {" ", "\n", "\t"}

\* str.strip()
Strip(s) ==
    LET n == Len(s)
        inner(i) == s[i] \notin Whitespace
    IN  IF \A i \in 1..n : ~inner(i)
        THEN <<>>
        ELSE SubSeq(s,
                 CHOOSE i \in 1..n : inner(i) /\ \A j \in 1..(i - 1) : ~inner(j),
                 CHOOSE i \in 1..n : inner(i) /\ \A j \in (i + 1)..n : ~inner(j))

\* s.split('.')
RECURSIVE SplitDot(_)
SplitDot(s) ==
    IF \A i \in 1..Len(s) : s[i] # "."
    THEN <<s>>
    ELSE LET d == CHOOSE i \in 1..Len(s) :
                     s[i] = "." /\ \A j \in 1..(i - 1) : s[j] # "."
         IN  <<SubSeq(s, 1, d - 1)>> \o SplitDot(SubSeq(s, d + 1, Len(s)))

\* " ".join(chunks)
RECURSIVE JoinSpace(_)
JoinSpace(chunks) ==
    IF Len(chunks) = 0 THEN <<>>
    ELSE IF Len(chunks) = 1 THEN chunks[1]
    ELSE chunks[1] \o <<" ">> \o JoinSpace(Tail(chunks))

\* s.replace('.txt', ''): every occurrence, left to right
RECURSIVE RemoveTxt(_)
RemoveTxt(s) ==
    IF Len(s) < Len(TxtExt) THEN s
    ELSE IF SubSeq(s, 1, Len(TxtExt)) = TxtExt
         THEN RemoveTxt(SubSeq(s, Len(TxtExt) + 1, Len(s)))
         ELSE <<s[1]>> \o RemoveTxt(Tail(s))

\* s[:n]
Prefix(s, n) ==
    SubSeq(s, 1, IF Len(s) < n THEN Len(s) ELSE n)

(***************************************************************************)
(* The files of the working directory                                      *)
(***************************************************************************)
\* the story files that exist, by path
Files ==
    {HeroPath, VillainPath}

\* open(source, 'r', encoding='utf-8').read()
ReadFile(path) ==
    CASE path = HeroPath -> HeroText
      [] path = VillainPath -> VillainText

\* a Document as compute_embeddings builds it from a file
Document(path) ==
    [page_content |-> ReadFile(path), metadata |-> [source |-> path]]

\* the lists of stories process_stories is called with
StoryLists ==
    {<<Document(HeroPath)>>, <<Document(HeroPath), Document(VillainPath)>>}

\* the names get_character_info is called with
Names ==
    {NameAl, NameLowerBo, NameZed}

(***************************************************************************)
(* The collaborators: the splitter, the embedding model, the flat index    *)
(***************************************************************************)
\* text_splitter.split_text on a text of at most chunk_size characters: the
\* text itself, stripped, as the only chunk; no chunk for an empty text
SplitText(content) ==
    IF Len(Strip(content)) = 0 THEN <<>> ELSE <<Strip(content)>>

\* model.encode on one text: a deterministic vector of fixed dimension
Encode(text) ==
    <<Len(text) % 7, Len(text) % 3>>

\* model.encode on a list of texts
EncodeAll(ts) ==
    [i \in 1..Len(ts) |-> Encode(ts[i])]

\* squared L2 distance
L2(u, v) ==
    (u[1] - v[1]) * (u[1] - v[1]) + (u[2] - v[2]) * (u[2] - v[2])

\* IndexFlatL2.search: k labels, 0-based, nearest first (equal distances in
\* insertion order), filled with -1 when the index holds fewer than k vectors
Search(vectors, q, k) ==
    LET n == Len(vectors)
        before(i, j) ==
            \/ L2(vectors[i], q) < L2(vectors[j], q)
            \/ L2(vectors[i], q) = L2(vectors[j], q) /\ i < j
        rank(i) == Cardinality({j \in 1..n : before(j, i)})
    IN  [p \in 1..k |->
            IF p <= n THEN (CHOOSE i \in 1..n : rank(i) = p - 1) - 1 ELSE -1]

\* whether texts[i] is defined for a Python list (negative i counts from the end)
ValidIndex(list, i) ==
    /\ i < Len(list)
    /\ 0 - Len(list) <= i

\* texts[i] of a Python list
GetItem(list, i) ==
    IF i >= 0 THEN list[i + 1] ELSE list[Len(list) + i + 1]

(***************************************************************************)
(* The state                                                               *)
(***************************************************************************)
VARIABLES
    index,            \* self.index: loaded is FALSE for None
    texts,            \* self.texts
    metadatas,        \* self.metadatas
    indexFile,        \* the file at index_path
    storeFile,        \* the file at store_path
    built,            \* process_stories has returned normally on this instance
    op,               \* the last operation
    character_name,   \* its argument, for get_character_info
    k_arg,            \* its argument k, for find_relevant_chunks
    lazy,             \* get_character_info found self.index None
    raised,           \* the exception the last operation raised, "" for none
    returned,         \* what it returned: "nothing", "None", "CharacterInfo", "chunks"
    info,             \* the CharacterInfo returned
    relevant_chunks,  \* the local relevant_chunks of get_character_info
    search_ids,       \* I[0] of the last direct find_relevant_chunks call
    found_chunks,     \* the list the last direct find_relevant_chunks call returned
    retrieverCalls,   \* find_relevant_chunks calls made by the last operation
    scanned           \* the last operation read the source files

vars ==
    <<index, texts, metadatas, indexFile, storeFile, built, op, character_name,
      k_arg, lazy, raised, returned, info, relevant_chunks, search_ids,
      found_chunks, retrieverCalls, scanned>>

\* self.index = None
NoIndex ==
    [loaded |-> FALSE, vectors |-> <<>>]

\* an IndexFlatL2 holding the vectors
FlatIndex(vectors) ==
    [loaded |-> TRUE, vectors |-> vectors]

\* index.ntotal
NTotal(idx) ==
    Len(idx.vectors)

\* a path at which no file exists
MissingFile ==
    [state |-> "missing", vectors |-> <<>>, texts |-> <<>>, metadatas |-> <<>>]

\* a file a failed write left truncated or partly written
CorruptFile ==
    [state |-> "corrupt", vectors |-> <<>>, texts |-> <<>>, metadatas |-> <<>>]

\* what faiss.write_index(self.index, self.index_path) writes
WrittenIndex(idx) ==
    [state |-> "ok", vectors |-> idx.vectors, texts |-> <<>>, metadatas |-> <<>>]

\* what pickle.dump({"texts": ..., "metadatas": ...}, f) writes
WrittenStore(ts, ms) ==
    [state |-> "ok", vectors |-> <<>>, texts |-> ts, metadatas |-> ms]

\* os.path.exists
Exists(file) ==
    file.state # "missing"

NoInfo ==
    [name |-> <<>>, storyTitle |-> <<>>, summary |-> <<>>, relations |-> <<>>,
     characterType |-> <<>>]

NoChunks ==
    [story_title |-> <<>>, summary |-> <<>>, relations |-> <<>>,
     character_type |-> <<>>]

\* the exceptions
NoIndexFound == "ValueError: No index found. Please process stories first."
IndexReadError == "RuntimeError: read_index"
StoreReadError == "UnpicklingError"
EmbeddingError == "EmbeddingError"
IndexError == "IndexError: list index out of range"
NoneHasNoSearch == "AttributeError: 'NoneType' object has no attribute 'search'"
WriteError == "OSError"

\* the last operation observed nothing of a query
NoQuery ==
    /\ character_name' = <<>>
    /\ k_arg' = 0
    /\ lazy' = FALSE
    /\ info' = NoInfo
    /\ relevant_chunks' = NoChunks
    /\ search_ids' = <<>>
    /\ found_chunks' = <<>>
    /\ retrieverCalls' = 0
    /\ scanned' = FALSE

Init ==
    /\ index = NoIndex
    /\ texts = <<>>
    /\ metadatas = <<>>
    /\ indexFile = MissingFile
    /\ storeFile = MissingFile
    /\ built = FALSE
    /\ op = "init"
    /\ character_name = <<>>
    /\ k_arg = 0
    /\ lazy = FALSE
    /\ raised = ""
    /\ returned = "nothing"
    /\ info = NoInfo
    /\ relevant_chunks = NoChunks
    /\ search_ids = <<>>
    /\ found_chunks = <<>>
    /\ retrieverCalls = 0
    /\ scanned = FALSE

(***************************************************************************)
(* StoryProcessor()                                                        *)
(***************************************************************************)
\* a command of the cli starts with a new StoryProcessor; the files stay
NewProcessor ==
    /\ index' = NoIndex
    /\ texts' = <<>>
    /\ metadatas' = <<>>
    /\ built' = FALSE
    /\ op' = "new"
    /\ raised' = ""
    /\ returned' = "nothing"
    /\ NoQuery
    /\ UNCHANGED <<indexFile, storeFile>>

(***************************************************************************)
(* process_stories                                                         *)
(***************************************************************************)
\* the chunks of the stories, in order (lines 46-49)
RECURSIVE ChunksOf(_)
ChunksOf(stories) ==
    IF Len(stories) = 0 THEN <<>>
    ELSE SplitText(stories[1].page_content) \o ChunksOf(Tail(stories))

\* their metadata, one per chunk (line 50)
RECURSIVE MetadatasOf(_)
MetadatasOf(stories) ==
    IF Len(stories) = 0 THEN <<>>
    ELSE [i \in 1..Len(SplitText(stories[1].page_content)) |->
             [source |-> stories[1].metadata.source]]
         \o MetadatasOf(Tail(stories))

\* where a build may fail
FailurePoints ==
    {"none", "encode", "write_index", "write_store"}

\* process_stories(stories).  fail names the step that raises; a failed write
\* leaves the file as it was (the open failed) or, with partial, truncated.
ProcessStories(stories, fail, partial) ==
    \E newTexts \in {texts \o ChunksOf(stories)} :
    \E newMetadatas \in {metadatas \o MetadatasOf(stories)} :
    \E newIndex \in {FlatIndex(EncodeAll(newTexts))} :
        /\ Len(newTexts) <= MaxChunks
        /\ fail = "none" => ~partial
        /\ fail = "encode" => ~partial
        /\ texts' = newTexts
        /\ metadatas' = newMetadatas
        /\ index' = IF fail = "encode" THEN index ELSE newIndex
        /\ indexFile' =
              CASE fail = "encode" -> indexFile
                [] fail = "write_index" ->
                      IF partial THEN CorruptFile ELSE indexFile
                [] OTHER -> WrittenIndex(newIndex)
        /\ storeFile' =
              CASE fail \in {"encode", "write_index"} -> storeFile
                [] fail = "write_store" ->
                      IF partial THEN CorruptFile ELSE storeFile
                [] OTHER -> WrittenStore(newTexts, newMetadatas)
        /\ built' = (built \/ fail = "none")
        /\ op' = "build"
        /\ raised' = CASE fail = "none" -> ""
                       [] fail = "encode" -> EmbeddingError
                       [] OTHER -> WriteError
        /\ returned' = "nothing"
        /\ NoQuery

(***************************************************************************)
(* find_relevant_chunks                                                    *)
(***************************************************************************)
\* find_relevant_chunks(query, k) on (idx, ts): what it raises, the labels
\* I[0] of the search, and the list it returns
FindRelevantChunks(idx, ts, query, k, embedFails) ==
    IF embedFails
    THEN [raised |-> EmbeddingError, ids |-> <<>>, chunks |-> <<>>]
    ELSE IF ~idx.loaded
    THEN [raised |-> NoneHasNoSearch, ids |-> <<>>, chunks |-> <<>>]
    ELSE LET I == Search(idx.vectors, Encode(query), k)
         IN  IF \E p \in 1..k : ~ValidIndex(ts, I[p])
             THEN [raised |-> IndexError, ids |-> I, chunks |-> <<>>]
             ELSE [raised |-> "", ids |-> I,
                   chunks |-> [p \in 1..k |-> GetItem(ts, I[p])]]

\* the queries and the k of the direct calls
Queries ==
    {RelationsPrefix \o NameAl}

Ks ==
    {2, DefaultK}

\* a direct call processor.find_relevant_chunks(query, k)
Retrieve(query, k, embedFails) ==
    \E r \in {FindRelevantChunks(index, texts, query, k, embedFails)} :
        /\ op' = "retrieve"
        /\ k_arg' = k
        /\ raised' = r.raised
        /\ returned' = IF r.raised = "" THEN "chunks" ELSE "nothing"
        /\ search_ids' = r.ids
        /\ found_chunks' = r.chunks
        /\ retrieverCalls' = 1
        /\ character_name' = <<>>
        /\ lazy' = FALSE
        /\ info' = NoInfo
        /\ relevant_chunks' = NoChunks
        /\ scanned' = FALSE
        /\ UNCHANGED <<index, texts, metadatas, indexFile, storeFile, built>>

(***************************************************************************)
(* get_character_info                                                      *)
(***************************************************************************)
\* line 77 with `and` in the place of `or`, negated
ArtifactsAvailableEither(idxFile, stFile) ==
    ~(~Exists(idxFile) /\ ~Exists(stFile))

\* line 77, negated: both persisted artifacts exist
ArtifactsAvailable(idxFile, stFile) ==
    ~(~Exists(idxFile) \/ ~Exists(stFile))

\* lines 84-85 with the loaded list appended to the list in memory
LoadedListAppended(current, stored) ==
    current \o stored

\* lines 84-85: the loaded list takes the place of the list in memory
LoadedList(current, stored) ==
    stored

\* lines 88-91
QueryOf(aspect, name) ==
    CASE aspect = "story_title" -> TitlePrefix \o name
      [] aspect = "summary" -> SummaryPrefix \o name \o SummarySuffix
      [] aspect = "relations" -> RelationsPrefix \o name
      [] aspect = "character_type" -> TypePrefix \o name

\* the aspects, in the order queries.items() yields them
Aspects ==
    <<"story_title", "summary", "relations", "character_type">>

\* line 102 without the two lower() calls
NameInSourceExact(name, source) ==
    Contains(name, ReadFile(source))

\* line 102: the name occurs in the file's text, both lowercased
NameInSource(name, source) ==
    Contains(Lower(name), Lower(ReadFile(source)))

\* lines 99-103
StorySources(ms, name) ==
    {ms[i].source : i \in {j \in 1..Len(ms) : NameInSource(name, ms[j].source)}}

\* lines 115-118: one relation for each sentence that contains the name
RECURSIVE RelationsOf(_, _)
RelationsOf(sentences, name) ==
    IF Len(sentences) = 0 THEN <<>>
    ELSE (IF Contains(name, sentences[1])
          THEN <<[name |-> Unknown, relation |-> Strip(sentences[1])]>>
          ELSE <<>>)
         \o RelationsOf(Tail(sentences), name)

\* lines 111-118 without the cut of line 133
RelationsUncut(relations_text, name) ==
    IF Len(relations_text) = 0 THEN <<>>
    ELSE RelationsOf(SplitDot(relations_text), name)

\* lines 111-118 and relations[:3] of line 133
Relations(relations_text, name) ==
    IF Len(relations_text) = 0 THEN <<>>
    ELSE Prefix(RelationsOf(SplitDot(relations_text), name), MaxRelations)

\* lines 120-127 with the tests for "antagonist" and "main" exchanged
CharacterTypeMainFirst(text) ==
    LET type_text == Lower(text)
    IN  IF Contains(KwProtagonist, type_text) THEN Protagonist
        ELSE IF Contains(KwMain, type_text) THEN MainCharacter
        ELSE IF Contains(KwAntagonist, type_text) THEN Antagonist
        ELSE SupportingCharacter

\* lines 120-127
CharacterType(text) ==
    LET type_text == Lower(text)
    IN  IF Contains(KwProtagonist, type_text) THEN Protagonist
        ELSE IF Contains(KwAntagonist, type_text) THEN Antagonist
        ELSE IF Contains(KwMain, type_text) THEN MainCharacter
        ELSE SupportingCharacter

\* lines 76-85: the lists of the instance and the error raised, "" for none
EnsureLoaded(idx, ts, ms, idxFile, stFile) ==
    IF idx.loaded
    THEN [raised |-> "", index |-> idx, texts |-> ts, metadatas |-> ms]
    ELSE IF ~ArtifactsAvailable(idxFile, stFile)
    THEN [raised |-> NoIndexFound, index |-> idx, texts |-> ts, metadatas |-> ms]
    ELSE IF idxFile.state # "ok"
    THEN [raised |-> IndexReadError, index |-> idx, texts |-> ts,
          metadatas |-> ms]
    ELSE IF stFile.state # "ok"
    THEN [raised |-> StoreReadError, index |-> FlatIndex(idxFile.vectors),
          texts |-> ts, metadatas |-> ms]
    ELSE [raised |-> "", index |-> FlatIndex(idxFile.vectors),
          texts |-> LoadedList(ts, stFile.texts),
          metadatas |-> LoadedList(ms, stFile.metadatas)]

\* lines 94-97, from aspect a on: the calls made, the error of the call that
\* raised, and the joined chunks of the aspects before it
RECURSIVE AspectChunks(_, _, _, _, _)
AspectChunks(idx, ts, name, embedFails, a) ==
    IF a > Len(Aspects)
    THEN [raised |-> "", calls |-> 0, joined |-> <<>>]
    ELSE LET r == FindRelevantChunks(idx, ts, QueryOf(Aspects[a], name),
                                     DefaultK, embedFails)
         IN  IF r.raised # ""
             THEN [raised |-> r.raised, calls |-> 1, joined |-> <<>>]
             ELSE LET rest == AspectChunks(idx, ts, name, embedFails, a + 1)
                  IN  [raised |-> rest.raised, calls |-> 1 + rest.calls,
                       joined |-> <<JoinSpace(r.chunks)>> \o rest.joined]

\* lines 108-135: the record for one of the story_sources
Record(name, source, chunks) ==
    [name |-> name,
     storyTitle |-> RemoveTxt(source),
     summary |-> Prefix(chunks.summary, SummaryLen),
     relations |-> Relations(chunks.relations, name),
     characterType |-> CharacterType(chunks.character_type)]

\* get_character_info(name).  embedFails: model.encode raises.
GetCharacterInfo(name, embedFails) ==
    \E load \in {EnsureLoaded(index, texts, metadatas, indexFile, storeFile)} :
    \E found \in {IF load.raised # ""
                  THEN [raised |-> load.raised, calls |-> 0, joined |-> <<>>]
                  ELSE AspectChunks(load.index, load.texts, name, embedFails, 1)} :
    \E chunks \in {IF found.raised # "" THEN NoChunks
                   ELSE [story_title |-> found.joined[1],
                         summary |-> found.joined[2],
                         relations |-> found.joined[3],
                         character_type |-> found.joined[4]]} :
    \E story_sources \in {IF found.raised # "" THEN {}
                          ELSE StorySources(load.metadatas, name)} :
        /\ op' = "lookup"
        /\ character_name' = name
        /\ lazy' = ~index.loaded
        /\ index' = load.index
        /\ texts' = load.texts
        /\ metadatas' = load.metadatas
        /\ raised' = found.raised
        /\ retrieverCalls' = found.calls
        /\ relevant_chunks' = chunks
        /\ scanned' = (found.raised = "")
        /\ returned' = IF found.raised # "" THEN "nothing"
                       ELSE IF story_sources = {} THEN "None"
                       ELSE "CharacterInfo"
        \* line 108: next(iter(story_sources)) is any one of the sources
        /\ \E source \in (IF story_sources = {} THEN {<<>>} ELSE story_sources) :
              info' = IF story_sources = {} THEN NoInfo
                      ELSE Record(name, source, chunks)
        /\ k_arg' = 0
        /\ search_ids' = <<>>
        /\ found_chunks' = <<>>
        /\ UNCHANGED <<indexFile, storeFile, built>>

(***************************************************************************)
(* The specification of the processor                                      *)
(***************************************************************************)
Next ==
    \/ NewProcessor
    \/ \E stories \in StoryLists, fail \in FailurePoints, partial \in BOOLEAN :
          ProcessStories(stories, fail, partial)
    \/ \E query \in Queries, k \in Ks :
          Retrieve(query, k, FALSE)
    \/ \E name \in Names, embedFails \in BOOLEAN :
          GetCharacterInfo(name, embedFails)

Spec ==
    Init /\ [][Next]_vars

(***************************************************************************)
(* Lines 108-135 alone, on any retrieved text: relevant_chunks is drawn    *)
(* from the texts a corpus can make the retriever return.                  *)
(***************************************************************************)
\* the most fragments one retrieved text is joined from
MaxFragments == 2

\* fragments of retrieved text
FragProtagonist ==
    <<"A", "l", " ", "i", "s", " ", "t", "h", "e", " ", "P", "r", "o", "t",
      "a", "g", "o", "n", "i", "s", "t", ".">>

FragAntagonist ==
    <<"B", "o", " ", "i", "s", " ", "t", "h", "e", " ", "m", "a", "i", "n",
      " ", "A", "N", "T", "A", "G", "O", "N", "I", "S", "T", ".">>

FragRemains ==
    <<"A", "l", " ", "r", "e", "m", "a", "i", "n", "s", ".">>

FragPlain ==
    <<"C", "y", " ", "n", "a", "p", "s">>

FragTwo ==
    <<"A", "l", " ", "m", "e", "t", " ", "B", "o", ".", " ", "A", "l", " ",
      "w", "o", "n", ".">>

Fragments ==
    {FragProtagonist, FragAntagonist, FragRemains, FragPlain, FragTwo}

\* the texts joined from n fragments
RECURSIVE JoinedTexts(_)
JoinedTexts(n) ==
    IF n = 1 THEN Fragments
    ELSE {f \o <<" ">> \o t : f \in Fragments, t \in JoinedTexts(n - 1)}

RetrievedTexts ==
    UNION {JoinedTexts(n) : n \in 1..MaxFragments}

InitDerive ==
    /\ index = NoIndex
    /\ texts = <<>>
    /\ metadatas = <<>>
    /\ indexFile = MissingFile
    /\ storeFile = MissingFile
    /\ built = FALSE
    /\ op = "init"
    /\ character_name \in {NameAl, NameBo}
    /\ k_arg = 0
    /\ lazy = FALSE
    /\ raised = ""
    /\ returned = "nothing"
    /\ info = NoInfo
    /\ \E t \in RetrievedTexts :
          relevant_chunks = [story_title |-> t, summary |-> t, relations |-> t,
                             character_type |-> t]
    /\ search_ids = <<>>
    /\ found_chunks = <<>>
    /\ retrieverCalls = 0
    /\ scanned = FALSE

\* lines 108-135 for a name found in the sources
Derive ==
    /\ op = "init"
    /\ op' = "derive"
    /\ returned' = "CharacterInfo"
    /\ \E source \in Files :
          info' = Record(character_name, source, relevant_chunks)
    /\ UNCHANGED <<index, texts, metadatas, indexFile, storeFile, built,
                   character_name, k_arg, lazy, raised, relevant_chunks,
                   search_ids, found_chunks, retrieverCalls, scanned>>

SpecDerive ==
    InitDerive /\ [][Derive]_vars

(***************************************************************************)
(* The claims                                                              *)
(***************************************************************************)
Min(a, b) ==
    IF a < b THEN a ELSE b

\* the name occurs in the text, letters compared without regard to case
OccursIgnoringCase(name, text) ==
    \E o \in 0..(Len(text) - Len(name)) :
        \A j \in 1..Len(name) : LowerChar(text[o + j]) = LowerChar(name[j])

\* the name occurs in the raw text of a source the store of the instance names
InSomeSource(name) ==
    \E i \in 1..Len(metadatas) :
        OccursIgnoringCase(name, ReadFile(metadatas[i].source))

\* C1: find_relevant_chunks(query, k) on a resident index of N chunks, one per
\* stored text, returns exactly min(k, N) texts, each the text of a distinct
\* stored chunk id the search returned.
C1_RetrieveReturnsMinKN ==
    (op = "retrieve" /\ index.loaded /\ NTotal(index) = Len(texts)) =>
        /\ raised = ""
        /\ Len(found_chunks) = Min(k_arg, NTotal(index))
        /\ \A p \in 1..Len(found_chunks) :
              /\ search_ids[p] \in 0..(Len(texts) - 1)
              /\ found_chunks[p] = texts[search_ids[p] + 1]
              /\ \A r \in 1..Len(found_chunks) :
                    r # p => search_ids[r] # search_ids[p]

\* C2: once process_stories has completed on an instance, after any later
\* process_stories (completed or aborted) and get_character_info calls the
\* index holds as many vectors as texts and metadatas hold entries.
C2_AlignedAfterBuild ==
    built =>
        /\ NTotal(index) = Len(texts)
        /\ Len(texts) = Len(metadatas)

\* the error the lookup is to raise for a persisted pair of different lengths
StoreMisaligned == "StoreMisaligned"

\* C3: a lookup whose lazy load reads an index file and a store file with
\* different entry counts raises StoreMisaligned: it makes no retrieval and
\* returns neither a record nor absent.
C3_MisalignedLoadRaises ==
    (/\ op = "lookup"
     /\ lazy
     /\ indexFile.state = "ok"
     /\ storeFile.state = "ok"
     /\ Len(indexFile.vectors) # Len(storeFile.texts)) =>
        /\ raised = StoreMisaligned
        /\ returned = "nothing"
        /\ retrieverCalls = 0

\* C4: the persisted pair is published atomically: at any time, also after an
\* aborted build, the two files are both absent or are the index and the
\* store of one completed build.
C4_PairPublishedAtomically ==
    \/ /\ indexFile.state = "missing"
       /\ storeFile.state = "missing"
    \/ /\ indexFile.state = "ok"
       /\ storeFile.state = "ok"
       /\ indexFile.vectors = EncodeAll(storeFile.texts)
       /\ Len(storeFile.texts) = Len(storeFile.metadatas)

\* C5: a lookup on an instance with no resident index, with one of the
\* persisted artifacts missing, raises the "No index found" error, returns
\* nothing, makes no retrieval and no source scan, and leaves index, texts and
\* metadatas as they were.
C5_NoIndexFound ==
    [][(/\ op' = "lookup"
        /\ ~index.loaded
        /\ (indexFile.state = "missing" \/ storeFile.state = "missing")) =>
           /\ raised' = NoIndexFound
           /\ returned' = "nothing"
           /\ retrieverCalls' = 0
           /\ ~scanned'
           /\ UNCHANGED <<index, texts, metadatas>>]_vars

\* C5: a lookup raised "No index found" with the index file there and the
\* store file missing.
C5_Witness ==
    /\ op = "lookup"
    /\ raised = NoIndexFound
    /\ indexFile.state = "ok"
    /\ storeFile.state = "missing"

\* C6: a lookup that raises nothing returns None exactly when the name has no
\* case-insensitive occurrence in the raw text of any source of the store, and
\* a CharacterInfo for that name otherwise; None comes with no error and with
\* no record.
C6_AbsentIffNoOccurrence ==
    (op = "lookup" /\ raised = "") =>
        /\ returned \in {"None", "CharacterInfo"}
        /\ returned = "None" <=> ~InSomeSource(character_name)
        /\ returned = "None" => info = NoInfo
        /\ returned = "CharacterInfo" => info.name = character_name

\* C6: a lookup returned None for a name spelt in another case than in a
\* source file of the working directory, on a store that names no such source.
C6_Witness ==
    /\ op = "lookup"
    /\ raised = ""
    /\ returned = "None"
    /\ character_name = NameLowerBo
    /\ Len(metadatas) > 0

\* C7: characterType follows the lowercased "character type" text by the
\* priority protagonist, antagonist, main, default, and is one of the four
\* values.
C7_ClassificationPriority ==
    returned = "CharacterInfo" =>
        LET type_text == Lower(relevant_chunks.character_type)
            p == Contains(KwProtagonist, type_text)
            a == Contains(KwAntagonist, type_text)
            m == Contains(KwMain, type_text)
        IN  /\ p => info.characterType = Protagonist
            /\ (~p /\ a) => info.characterType = Antagonist
            /\ (~p /\ ~a /\ m) => info.characterType = MainCharacter
            /\ (~p /\ ~a /\ ~m) => info.characterType = SupportingCharacter
            /\ info.characterType \in
                  {Protagonist, Antagonist, MainCharacter, SupportingCharacter}

\* C7: a text with "antagonist" and "main" and without "protagonist" was
\* classified Antagonist.
C7_Witness ==
    /\ returned = "CharacterInfo"
    /\ Contains(KwAntagonist, Lower(relevant_chunks.character_type))
    /\ Contains(KwMain, Lower(relevant_chunks.character_type))
    /\ ~Contains(KwProtagonist, Lower(relevant_chunks.character_type))
    /\ info.characterType = Antagonist

\* the sentences of the "relations" text that contain the name, by position
MatchingSentences ==
    {i \in 1..Len(SplitDot(relevant_chunks.relations)) :
        Contains(character_name, SplitDot(relevant_chunks.relations)[i])}

\* the position of the j-th of them
NthMatching(j) ==
    CHOOSE i \in MatchingSentences :
        Cardinality({x \in MatchingSentences : x < i}) = j - 1

\* C8: relations holds the first min(3, m) of the m '.'-separated sentences of
\* the "relations" text that contain the name, in their order, each with name
\* "Unknown" and the trimmed sentence as its relation.
C8_RelationCap ==
    returned = "CharacterInfo" =>
        /\ Len(info.relations) = Min(3, Cardinality(MatchingSentences))
        /\ \A j \in 1..Len(info.relations) :
              info.relations[j] =
                  [name |-> Unknown,
                   relation |->
                       Strip(SplitDot(relevant_chunks.relations)[NthMatching(j)])]

\* C8: more than three sentences contained the name and three relations were
\* returned.
C8_Witness ==
    /\ returned = "CharacterInfo"
    /\ Cardinality(MatchingSentences) > 3
    /\ Len(info.relations) = 3

\* C9: a lookup that returns None has called the retriever not once, and a
\* lookup fails on an embedding error only for a name that some source holds.
C9_PresenceCheckFirst ==
    op = "lookup" =>
        /\ returned = "None" => retrieverCalls = 0
        /\ raised = EmbeddingError => InSomeSource(character_name)

\* C10: a query changes neither file; with an index resident it leaves index,
\* texts and metadatas as they are; a lazy load that reads both files puts the
\* stored lists in the place of the lists in memory, so texts holds as many
\* entries as the persisted store; a load that fails leaves the lists alone.
C10_QueriesDoNotMutate ==
    [][op' \in {"lookup", "retrieve"} =>
           /\ UNCHANGED <<indexFile, storeFile>>
           /\ index.loaded => UNCHANGED <<index, texts, metadatas>>
           /\ (~index.loaded /\ index'.loaded /\ storeFile.state = "ok") =>
                 /\ index'.vectors = indexFile.vectors
                 /\ texts' = storeFile.texts
                 /\ metadatas' = storeFile.metadatas
                 /\ Len(texts') = Len(storeFile.texts)
           /\ ~index'.loaded => UNCHANGED <<texts, metadatas>>]_vars

\* C10: a lookup has loaded the persisted pair into an instance and the lists
\* in memory are the stored ones.
C10_Witness ==
    /\ op = "lookup"
    /\ lazy
    /\ index.loaded
    /\ storeFile.state = "ok"
    /\ Len(texts) > 0
    /\ texts = storeFile.texts

====
